---- MODULE Spec2Model ----
(***************************************************************************)
(* A model of the AI trip planner: the Streamlit request handler           *)
(* (app.py main), the agent construction and the plan_trip helper          *)
(* (agent.py), and the three tools bound to the agent (tools.py).          *)
(*                                                                         *)
(* Representation of Python values                                         *)
(*   str    a sequence of chunks, each chunk a non-empty run of            *)
(*          characters written as a TLA+ string; "" is <<>>.  A city is    *)
(*          spelled one character per chunk, so that strip() and           *)
(*          substring tests act on characters.                             *)
(*   text   the agent's final answer: a sequence of JSON lexemes, one      *)
(*          whitespace lexeme per whitespace character.                    *)
(*   object a decoded JSON value, tagged by kind: dict, list, str, num.    *)
(***************************************************************************)
EXTENDS Integers, Sequences, FiniteSets, TLC

VARIABLES
    env,            \* os.environ: GOOGLE_API_KEY and OPENWEATHER_API_KEY
    pc,             \* position of the request: app.main, or a direct caller
    caller,         \* who drives agent.py: app.main, or another importer
    city,           \* the destination: st.text_input, or plan_trip's argument
    num_days,       \* the trip length: st.number_input, or plan_trip's argument
    credAtStart,    \* whether GOOGLE_API_KEY was set when the request began
    llmBuilt,       \* ChatGoogleGenerativeAI clients constructed in this run
    invocations,    \* the input of every agent.invoke call of this run
    outbound,       \* whether this run issued an outbound call: an agent
                    \* invocation, an HTTP request
    decodes,        \* json.loads attempts made in this run
    toolCalls,      \* tool calls the agent made so far in the agent.invoke
                    \* under way
    answer,         \* what agent.invoke returned: result["output"], if any
    sent,           \* the document the LLM meant its final answer to spell
    plan,           \* what plan_trip returned
    outcome,        \* how the run ended
    wpc,            \* position inside get_current_weather
    wcity,          \* get_current_weather's argument
    wreqs,          \* HTTP requests get_current_weather issued in this call
    wcurrent,       \* current = current_resp.json()
    wforecast,      \* forecast = forecast_resp.json()
    wret,           \* how the last get_current_weather call ended
    prevFallback,   \* the last fallback an earlier get_current_weather call
                    \* returned, and the city it was asked about
    catalog,        \* the last flight / hotel tool call and what it returned
    prevCatalog     \* the flight / hotel tool call before it

appVars == << pc, caller, city, num_days, credAtStart, llmBuilt, invocations,
              outbound, decodes, toolCalls, answer, sent, plan, outcome >>
weatherVars == << wpc, wcity, wreqs, wcurrent, wforecast, wret, prevFallback >>
catalogVars == << catalog, prevCatalog >>
vars == << env, appVars, weatherVars, catalogVars >>

(***************************************************************************)
(* Bounds of the model.                                                    *)
(***************************************************************************)
MaxCityLen == 2     \* characters typed into the destination field
MaxDays == 2        \* trip length; the form allows 1..30
MaxToolCalls == 2   \* tool calls the agent makes in one invocation
MaxPad == 1         \* whitespace characters around a final answer

(***************************************************************************)
(* Python strings.                                                         *)
(***************************************************************************)
Space == " "

\* the whitespace test of str.strip() on the characters of a str
IsSpaceChunk(c) == c = Space

SetMin(S) == CHOOSE m \in S : \A o \in S : m <= o
SetMax(S) == CHOOSE m \in S : \A o \in S : m >= o

\* s.strip() given the positions of s that hold no whitespace: leading and
\* trailing whitespace removed, the inside kept
StripTo(s, keep) ==
    IF keep = {} THEN <<>> ELSE SubSeq(s, SetMin(keep), SetMax(keep))

\* city.strip()
StripStr(s) == StripTo(s, {i \in 1..Len(s) : ~IsSpaceChunk(s[i])})

\* sub in s
Contains(s, sub) ==
    \E i \in 1..(Len(s) - Len(sub) + 1) : SubSeq(s, i, i + Len(sub) - 1) = sub

RECURSIVE Join(_, _)
\* sep.join(lines)
Join(sep, lines) ==
    IF lines = <<>> THEN <<>>
    ELSE IF Len(lines) = 1 THEN lines[1]
    ELSE lines[1] \o sep \o Join(sep, Tail(lines))

\* The destinations: every string of at most MaxCityLen characters.
Alphabet == {Space, "P"}
Cities == UNION { [1..n -> Alphabet] : n \in 0..MaxCityLen }

(***************************************************************************)
(* The process environment.  os.getenv gives None for an unset variable;   *)
(* `not value` is true of None and of the empty string.                    *)
(***************************************************************************)
Unset == "<None>"
EnvValues == {Unset, "", "key"}
Falsy(v) == v = Unset \/ v = ""

(***************************************************************************)
(* tools.py: the static catalog providers.                                 *)
(***************************************************************************)
get_dummy_flight_options(c) ==
    << [airline |-> <<"Example Air">>, from |-> <<"Your Home City">>, to |-> c,
        stops |-> 0, duration_hours |-> 7, price_usd |-> 650,
        notes |-> <<"Morning non-stop flight with a meal included.">>],
       [airline |-> <<"Sample Airlines">>, from |-> <<"Your Home City">>, to |-> c,
        stops |-> 1, duration_hours |-> 10, price_usd |-> 520,
        notes |-> <<"One layover, budget-friendly option.">>],
       [airline |-> <<"Budget Wings">>, from |-> <<"Your Home City">>, to |-> c,
        stops |-> 2, duration_hours |-> 13, price_usd |-> 430,
        notes |-> <<"Ultra-budget with basic amenities.">>] >>

\* faulty variant: the first hotel's name leaves the city out
get_dummy_hotel_options_unnamed(c) ==
    << [name |-> <<"Central Comfort Hotel">>, stars |-> 3,
        price_per_night_usd |-> 90,
        location |-> <<"Central area, good public transport">>,
        notes |-> <<"Great value, basic but clean rooms.">>],
       [name |-> c \o <<" Riverside Boutique">>, stars |-> 4,
        price_per_night_usd |-> 150,
        location |-> <<"Scenic neighborhood near main attractions">>,
        notes |-> <<"Stylish boutique hotel with breakfast included.">>],
       [name |-> <<"Luxury Grand ">> \o c, stars |-> 5,
        price_per_night_usd |-> 260,
        location |-> <<"Premium district">>,
        notes |-> <<"High-end amenities, spa, and concierge services.">>] >>

get_dummy_hotel_options(c) ==
    << [name |-> c \o <<" Central Comfort Hotel">>, stars |-> 3,
        price_per_night_usd |-> 90,
        location |-> <<"Central area, good public transport">>,
        notes |-> <<"Great value, basic but clean rooms.">>],
       [name |-> c \o <<" Riverside Boutique">>, stars |-> 4,
        price_per_night_usd |-> 150,
        location |-> <<"Scenic neighborhood near main attractions">>,
        notes |-> <<"Stylish boutique hotel with breakfast included.">>],
       [name |-> <<"Luxury Grand ">> \o c, stars |-> 5,
        price_per_night_usd |-> 260,
        location |-> <<"Premium district">>,
        notes |-> <<"High-end amenities, spa, and concierge services.">>] >>

(***************************************************************************)
(* tools.py: get_current_weather.                                          *)
(*                                                                         *)
(* An optional JSON member is a sequence of length 0 (absent) or 1.  A     *)
(* JSON number is [num |-> TRUE, v |-> tenths]; [num |-> FALSE, ...] is a  *)
(* value that is no number (null, a string).  An exception is its type     *)
(* and str(e).                                                             *)
(***************************************************************************)
Some(x) == <<x>>
None == <<>>
Num(v) == [num |-> TRUE, v |-> v]
NotNum == [num |-> FALSE, v |-> 0]

Exc(t, m) == [type |-> t, msg |-> m]
Raised(e) == [exc |-> Some(e), val |-> <<>>]
Value(v) == [exc |-> None, val |-> v]

\* What the weather provider may answer to one request.
Statuses == {200, 401, 404, 500}

CurrentBodies ==
    { [isJson |-> TRUE, weather |-> Some(<< [description |-> Some(<<"clear sky">>)] >>),
       main |-> Some([temp |-> Some(Num(215)), feels_like |-> Some(Num(203))])],
      [isJson |-> TRUE, weather |-> Some(<< [description |-> Some(<<"light rain">>)] >>),
       main |-> Some([temp |-> Some(Num(-34)), feels_like |-> Some(Num(-80))])],
      [isJson |-> TRUE, weather |-> None,
       main |-> Some([temp |-> Some(Num(215)), feels_like |-> Some(Num(203))])],
      [isJson |-> TRUE, weather |-> Some(<< >>),
       main |-> Some([temp |-> Some(Num(215)), feels_like |-> Some(Num(203))])],
      [isJson |-> TRUE, weather |-> Some(<< [description |-> None] >>),
       main |-> Some([temp |-> Some(Num(215)), feels_like |-> Some(Num(203))])],
      [isJson |-> TRUE, weather |-> Some(<< [description |-> Some(<<"clear sky">>)] >>),
       main |-> None],
      [isJson |-> TRUE, weather |-> Some(<< [description |-> Some(<<"clear sky">>)] >>),
       main |-> Some([temp |-> Some(NotNum), feels_like |-> Some(Num(203))])],
      [isJson |-> TRUE, weather |-> Some(<< [description |-> Some(<<"clear sky">>)] >>),
       main |-> Some([temp |-> Some(Num(215)), feels_like |-> None])],
      [isJson |-> FALSE, weather |-> None, main |-> None] }

FcItem(t, m, w) == [dt_txt |-> t, main |-> m, weather |-> w]

ForecastBodies ==
    { [isJson |-> TRUE, list |-> Some(<<
          FcItem(Some(<<"2024-05-01 12:00:00">>), Some([temp |-> Some(Num(221))]),
                 Some(<< [description |-> Some(<<"light rain">>)] >>)),
          FcItem(Some(<<"2024-05-01 15:00:00">>), Some([temp |-> Some(Num(-5))]),
                 None) >>)],
      [isJson |-> TRUE, list |-> None],
      [isJson |-> TRUE, list |-> Some(<< FcItem(None, None, None) >>)],
      [isJson |-> TRUE, list |-> Some(<<
          FcItem(Some(<<"2024-05-01 12:00:00">>), None, None) >>)],
      [isJson |-> TRUE, list |-> Some(<<
          FcItem(Some(<<"2024-05-01 12:00:00">>), Some([temp |-> Some(NotNum)]),
                 None) >>)],
      [isJson |-> TRUE, list |-> Some(<<
          FcItem(Some(<<"2024-05-01 12:00:00">>), Some([temp |-> Some(Num(221))]),
                 Some(<< >>)) >>)],
      [isJson |-> FALSE, list |-> None] }

\* requests.get(...): the provider is unreachable (the call raises) or answers
NetFailures == { Exc("ConnectionError", <<"Failed to establish a new connection">>),
                 Exc("Timeout", <<>>) }

Responses(bodies) ==
    { [failure |-> None, status |-> s, body |-> b] : s \in Statuses, b \in bodies }
    \cup { [failure |-> Some(f), status |-> 0, body |-> CHOOSE b \in bodies : ~b.isJson] :
             f \in NetFailures }

\* resp.raise_for_status(); resp.json()
ReadResponse(resp) ==
    IF resp.failure # None THEN Raised(resp.failure[1])
    ELSE IF resp.status >= 400
         THEN Raised(Exc("HTTPError", <<ToString(resp.status), " Error">>))
    ELSE IF ~resp.body.isJson
         THEN Raised(Exc("JSONDecodeError", <<"Expecting value: line 1 column 1 (char 0)">>))
    ELSE Value(resp.body)

\* the response's status was a success status
StatusOk(resp) == resp.failure = None /\ resp.status < 400

\* str.capitalize()
Capitalize(s) ==
    CASE s = <<"clear sky">> -> <<"Clear sky">>
      [] s = <<"light rain">> -> <<"Light rain">>

\* format(x, ".1f") of a number given in tenths
Fmt1f(x) ==
    LET a == IF x.v < 0 THEN -x.v ELSE x.v
    IN  (IF x.v < 0 THEN <<"-">> ELSE <<>>) \o <<ToString(a \div 10), ".", ToString(a % 10)>>

\* description, temp, feels_like = current[...]
ReadCurrent(current) ==
    IF current.weather = None THEN Raised(Exc("KeyError", <<"'weather'">>))
    ELSE IF current.weather[1] = <<>>
         THEN Raised(Exc("IndexError", <<"list index out of range">>))
    ELSE IF current.weather[1][1].description = None
         THEN Raised(Exc("KeyError", <<"'description'">>))
    ELSE IF current.main = None THEN Raised(Exc("KeyError", <<"'main'">>))
    ELSE IF current.main[1].temp = None THEN Raised(Exc("KeyError", <<"'temp'">>))
    ELSE IF current.main[1].feels_like = None
         THEN Raised(Exc("KeyError", <<"'feels_like'">>))
    ELSE Value([description |-> Capitalize(current.weather[1][1].description[1]),
                temp |-> current.main[1].temp[1],
                feels_like |-> current.main[1].feels_like[1]])

\* one entry of forecasts, from one item of forecast["list"]
ForecastEntry(item) ==
    IF item.weather # None /\ item.weather[1] = <<>>
    THEN Raised(Exc("IndexError", <<"list index out of range">>))
    ELSE Value([time |-> item.dt_txt,
                temp |-> IF item.main = None THEN None ELSE item.main[1].temp,
                description |->
                    IF item.weather = None \/ item.weather[1][1].description = None
                    THEN <<>> ELSE item.weather[1][1].description[1]])

\* for item in forecast.get("list", []): forecasts.append(...)
ReadForecast(forecast) ==
    LET items == IF forecast.list = None THEN <<>> ELSE forecast.list[1]
        bad == {i \in 1..Len(items) : ForecastEntry(items[i]).exc # None}
    IN  IF bad # {} THEN ForecastEntry(items[SetMin(bad)])
        ELSE Value([i \in 1..Len(items) |-> ForecastEntry(items[i]).val])

\* summary_lines and "\n".join(summary_lines)
Summary(c, cur, forecasts) ==
    LET Shown(f) == f.time # None /\ f.time[1] # <<>>
        shown == SelectSeq(forecasts, Shown)
        Unformattable(f) == f.temp = None \/ ~f.temp[1].num
        Line(f) == <<"- ">> \o f.time[1] \o <<": ">> \o Fmt1f(f.temp[1]) \o <<"°C, ">>
                   \o f.description
    IN  IF ~cur.temp.num \/ ~cur.feels_like.num
        THEN Raised(Exc("TypeError", <<"unsupported format string">>))
        ELSE IF SelectSeq(shown, Unformattable) # <<>>
        THEN Raised(Exc("TypeError", <<"unsupported format string">>))
        ELSE Value(Join(<<"\n">>,
                 << <<"Current weather in ">> \o c \o <<": ">> \o cur.description
                    \o <<", ">> \o Fmt1f(cur.temp) \o <<"°C (feels like ">>
                    \o Fmt1f(cur.feels_like) \o <<"°C).">>,
                    <<"Short-term forecast (next ~24 hours):">> >>
                 \o [i \in 1..Len(shown) |-> Line(shown[i])]))

\* the text returned when OPENWEATHER_API_KEY is not set
NoKeyMessage ==
    <<"Real-time weather is unavailable because OPENWEATHER_API_KEY is not set. You may still provide general, non-real-time weather expectations for the season.">>

\* faulty variant: the except clause answers with a text that leaves the error out
ErrorMessageWithoutReason(e) ==
    <<"Could not fetch real-time weather data from OpenWeather. You may still provide general guidance based on the typical climate of the destination.">>

\* the text returned by the except clause
ErrorMessage(e) ==
    <<"Could not fetch real-time weather data from OpenWeather. Reason: ">> \o e.msg
    \o <<". You may still provide general guidance based on the typical climate of the destination.">>

\* faulty variant: except requests.RequestException as e
CatchesRequestErrorsOnly(e) ==
    e.type \in {"ConnectionError", "Timeout", "HTTPError", "JSONDecodeError"}

\* except Exception as e: every exception raised in the try block is caught
Catches(e) == TRUE

\* How a call of get_current_weather ends.
Returned(kind, text, e) == [kind |-> kind, text |-> text, exc |-> e]
NotCalled == Returned("none", <<>>, None)

\* the try block left by exception e: the except clause, or e propagates
OnException(e) ==
    IF Catches(e) THEN Returned("error", ErrorMessage(e), Some(e))
    ELSE Returned("raised", <<>>, Some(e))

\* the statements after both responses were read: lines 53-81
Summarise(c, current, forecast) ==
    LET cur == ReadCurrent(current)
        fcs == ReadForecast(forecast)
    IN  IF cur.exc # None THEN OnException(cur.exc[1])
        ELSE IF fcs.exc # None THEN OnException(fcs.exc[1])
        ELSE LET s == Summary(c, cur.val, fcs.val)
             IN  IF s.exc # None THEN OnException(s.exc[1])
                 ELSE Returned("real", s.val, None)

\* One whole call: the result and the requests issued, given the key and what
\* the provider answers to the first and to the second request.
get_current_weather(c, api_key, r1, r2) ==
    IF Falsy(api_key) THEN [ret |-> Returned("nokey", NoKeyMessage, None), reqs |-> <<>>]
    ELSE IF ReadResponse(r1).exc # None
         THEN [ret |-> OnException(ReadResponse(r1).exc[1]), reqs |-> <<"weather">>]
    ELSE IF ReadResponse(r2).exc # None
         THEN [ret |-> OnException(ReadResponse(r2).exc[1]),
               reqs |-> <<"weather", "forecast">>]
    ELSE [ret |-> Summarise(c, ReadResponse(r1).val, ReadResponse(r2).val),
          reqs |-> <<"weather", "forecast">>]

(***************************************************************************)
(* JSON.  A text is a sequence of lexemes; a decoded value is tagged by    *)
(* its Python type.  A dict is a function from its keys (each a str).      *)
(***************************************************************************)
Lx(k) == [k |-> k, s |-> <<>>, n |-> 0]
LStr(s) == [k |-> "str", s |-> s, n |-> 0]
LNum(n) == [k |-> "num", s |-> <<>>, n |-> n]
Ws(n) == [i \in 1..n |-> Lx("ws")]

VDict(items) == [kind |-> "dict", items |-> items]
VList(elems) == [kind |-> "list", elems |-> elems]
VStr(s) == [kind |-> "str", s |-> s]
VNum(n) == [kind |-> "num", n |-> n]
VNull == [kind |-> "null"]
\* no object: nothing was returned
NoPlan == [kind |-> "none"]
NoItems == [k \in {} |-> VNull]

\* d[key] = v
Put(items, key, v) ==
    [k \in (DOMAIN items) \cup {key} |-> IF k = key THEN v ELSE items[k]]

\* the whitespace test of str.strip() and of the JSON scanner
IsWsLexeme(x) == x.k = "ws"

\* output_text.strip()
StripText(t) == StripTo(t, {i \in 1..Len(t) : ~IsWsLexeme(t[i])})

RECURSIVE SkipWs(_, _)
\* the first position at or after i that holds no whitespace
SkipWs(t, i) == IF i <= Len(t) /\ IsWsLexeme(t[i]) THEN SkipWs(t, i + 1) ELSE i

Parsed(v, next) == [ok |-> TRUE, val |-> v, next |-> next]
ParseError == [ok |-> FALSE, val |-> NoPlan, next |-> 0]
At(t, i, k) == i <= Len(t) /\ t[i].k = k

RECURSIVE ParseValue(_, _)
RECURSIVE ParseMembers(_, _, _)
RECURSIVE ParseElems(_, _, _)

\* the members of an object, from the first key at i to the closing brace
ParseMembers(t, i, items) ==
    IF ~At(t, i, "str") THEN ParseError
    ELSE LET colon == SkipWs(t, i + 1)
         IN  IF ~At(t, colon, ":") THEN ParseError
             ELSE LET v == ParseValue(t, SkipWs(t, colon + 1))
                      after == SkipWs(t, v.next)
                  IN  IF ~v.ok THEN ParseError
                      ELSE IF At(t, after, "}")
                           THEN Parsed(VDict(Put(items, t[i].s, v.val)), after + 1)
                      ELSE IF At(t, after, ",")
                           THEN ParseMembers(t, SkipWs(t, after + 1),
                                             Put(items, t[i].s, v.val))
                      ELSE ParseError

\* the elements of an array, from the first element at i to the closing bracket
ParseElems(t, i, elems) ==
    LET v == ParseValue(t, i)
        after == SkipWs(t, v.next)
    IN  IF ~v.ok THEN ParseError
        ELSE IF At(t, after, "]") THEN Parsed(VList(Append(elems, v.val)), after + 1)
        ELSE IF At(t, after, ",")
             THEN ParseElems(t, SkipWs(t, after + 1), Append(elems, v.val))
        ELSE ParseError

\* one JSON value starting at position i
ParseValue(t, i) ==
    IF i > Len(t) THEN ParseError
    ELSE CASE t[i].k = "str" -> Parsed(VStr(t[i].s), i + 1)
           [] t[i].k = "num" -> Parsed(VNum(t[i].n), i + 1)
           [] t[i].k = "null" -> Parsed(VNull, i + 1)
           [] t[i].k = "{" ->
                IF At(t, SkipWs(t, i + 1), "}")
                THEN Parsed(VDict(NoItems), SkipWs(t, i + 1) + 1)
                ELSE ParseMembers(t, SkipWs(t, i + 1), NoItems)
           [] t[i].k = "[" ->
                IF At(t, SkipWs(t, i + 1), "]")
                THEN Parsed(VList(<<>>), SkipWs(t, i + 1) + 1)
                ELSE ParseElems(t, SkipWs(t, i + 1), <<>>)
           [] OTHER -> ParseError

\* json.loads(t): one value, whitespace around it, nothing after it; ~ok is
\* json.JSONDecodeError
json_loads(t) ==
    LET v == ParseValue(t, SkipWs(t, 1))
    IN  IF v.ok /\ SkipWs(t, v.next) = Len(t) + 1 THEN v ELSE ParseError

(***************************************************************************)
(* The final answers the agent may give.  A document is what the LLM means *)
(* to say: a JSON value with its object members in the order written.  Its *)
(* text is the document spelled as lexemes, compact or with a space after  *)
(* each separator, then possibly damaged, then padded with whitespace.     *)
(***************************************************************************)
DDict(members) == [d |-> "dict", members |-> members]
DList(elems) == [d |-> "list", elems |-> elems]
DStr(s) == [d |-> "str", s |-> s]
DNum(n) == [d |-> "num", n |-> n]
DNull == [d |-> "null"]

Sep(k, spaced) == <<Lx(k)>> \o (IF spaced THEN Ws(1) ELSE <<>>)

RECURSIVE Spell(_, _)
RECURSIVE SpellMembers(_, _)
RECURSIVE SpellElems(_, _)

SpellMembers(members, spaced) ==
    IF members = <<>> THEN <<>>
    ELSE <<LStr(members[1][1])>> \o Sep(":", spaced) \o Spell(members[1][2], spaced)
         \o (IF Len(members) = 1 THEN <<>>
             ELSE Sep(",", spaced) \o SpellMembers(Tail(members), spaced))

SpellElems(elems, spaced) ==
    IF elems = <<>> THEN <<>>
    ELSE Spell(elems[1], spaced)
         \o (IF Len(elems) = 1 THEN <<>>
             ELSE Sep(",", spaced) \o SpellElems(Tail(elems), spaced))

\* the JSON text of a document
Spell(doc, spaced) ==
    CASE doc.d = "str" -> <<LStr(doc.s)>>
      [] doc.d = "num" -> <<LNum(doc.n)>>
      [] doc.d = "null" -> <<Lx("null")>>
      [] doc.d = "list" -> <<Lx("[")>> \o SpellElems(doc.elems, spaced) \o <<Lx("]")>>
      [] doc.d = "dict" -> <<Lx("{")>> \o SpellMembers(doc.members, spaced) \o <<Lx("}")>>

RECURSIVE Meaning(_)
RECURSIVE MeaningOfMembers(_, _)

MeaningOfMembers(members, items) ==
    IF members = <<>> THEN items
    ELSE MeaningOfMembers(Tail(members),
                          Put(items, members[1][1], Meaning(members[1][2])))

\* the Python object a document stands for (a repeated key keeps its last value)
Meaning(doc) ==
    CASE doc.d = "str" -> VStr(doc.s)
      [] doc.d = "num" -> VNum(doc.n)
      [] doc.d = "null" -> VNull
      [] doc.d = "list" -> VList([i \in 1..Len(doc.elems) |-> Meaning(doc.elems[i])])
      [] doc.d = "dict" -> VDict(MeaningOfMembers(doc.members, NoItems))

\* The top-level keys the prompt asks for (_build_prompt, RESPONSE FORMAT).
SchemaKeys == { <<"city_overview">>, <<"weather_summary">>, <<"suggested_dates">>,
                <<"flight_options">>, <<"hotel_options">>, <<"itinerary">> }

FlightDoc(r) ==
    DDict(<< << <<"airline">>, DStr(r.airline) >>, << <<"from">>, DStr(r.from) >>,
             << <<"to">>, DStr(r.to) >>, << <<"stops">>, DNum(r.stops) >>,
             << <<"duration_hours">>, DNum(r.duration_hours) >>,
             << <<"price_usd">>, DNum(r.price_usd) >>, << <<"notes">>, DStr(r.notes) >> >>)

HotelDoc(r) ==
    DDict(<< << <<"name">>, DStr(r.name) >>, << <<"stars">>, DNum(r.stars) >>,
             << <<"price_per_night_usd">>, DNum(r.price_per_night_usd) >>,
             << <<"location">>, DStr(r.location) >>, << <<"notes">>, DStr(r.notes) >> >>)

DayDoc(i) ==
    DDict(<< << <<"day">>, DNum(i) >>, << <<"title">>, DStr(<<"Day ", ToString(i)>>) >>,
             << <<"description">>, DStr(<<"Walk the old town.">>) >> >>)

PlanDoc(overview, flights, hotels, itinerary) ==
    DDict(<< << <<"city_overview">>, overview >>,
             << <<"weather_summary">>, DStr(NoKeyMessage) >>,
             << <<"suggested_dates">>, DStr(<<"Spring.">>) >>,
             << <<"flight_options">>, flights >>,
             << <<"hotel_options">>, hotels >>,
             << <<"itinerary">>, itinerary >> >>)

\* the answer the prompt asks for, built from the tools' results
FullPlan(c, n) ==
    PlanDoc(DStr(<<"About ">> \o c),
            DList([i \in DOMAIN get_dummy_flight_options(c) |->
                      FlightDoc(get_dummy_flight_options(c)[i])]),
            DList([i \in DOMAIN get_dummy_hotel_options(c) |->
                      HotelDoc(get_dummy_hotel_options(c)[i])]),
            DList([i \in 1..n |-> DayDoc(i)]))

BarePlan == PlanDoc(DStr(<<"A city.">>), DList(<<>>), DList(<<>>), DList(<<>>))

Documents(c, n) ==
    { FullPlan(c, n),
      BarePlan,
      \* an object that lacks keys of the schema
      DDict(<< << <<"city_overview">>, DStr(<<"About ">> \o c) >> >>),
      DDict(<<>>),
      \* the schema's keys and one more
      DDict(BarePlan.members \o << << <<"raw_output">>, DStr(<<"none">>) >> >>),
      \* a key written twice
      DDict(<< << <<"city_overview">>, DStr(<<"First.">>) >> >> \o BarePlan.members),
      \* an itinerary whose entries are no objects, and one that is no list
      PlanDoc(DStr(<<"A city.">>), DList(<<>>), DList(<<>>), DList(<<DStr(<<"Day 1">>)>>)),
      PlanDoc(DStr(<<"A city.">>), DList(<<>>), DList(<<>>), DNum(n)),
      \* JSON values that are no object
      DList(<<BarePlan>>), DStr(<<"About ">> \o c), DNum(n), DNull }

\* What may be wrong with the text: nothing; wrapped in a markdown fence;
\* cut short; preceded by prose; followed by prose.
Damages == {"none", "fenced", "truncated", "prose", "extra"}

Damage(t, how) ==
    CASE how = "none" -> t
      [] how = "fenced" -> <<Lx("fence")>> \o t \o <<Lx("fence")>>
      [] how = "truncated" -> SubSeq(t, 1, Len(t) - 1)
      [] how = "prose" -> <<Lx("word"), Lx("ws")>> \o t
      [] how = "extra" -> t \o <<Lx("ws"), Lx("word")>>

\* the final answer: result["output"]
AnswerText(doc, spaced, how, left, right) ==
    Ws(left) \o Damage(Spell(doc, spaced), how) \o Ws(right)

(***************************************************************************)
(* State before the first request.                                         *)
(***************************************************************************)
NoBody == [isJson |-> FALSE]
NoCatalog == [tool |-> "none", city |-> <<>>, result |-> <<>>]

AppIdle ==
    /\ pc = "form" /\ caller = "none" /\ city = <<>> /\ num_days = 1
    /\ credAtStart = FALSE /\ llmBuilt = 0 /\ invocations = <<>> /\ outbound = FALSE
    /\ decodes = 0 /\ toolCalls = 0 /\ answer = None /\ sent = None
    /\ plan = NoPlan /\ outcome = "none"

WeatherIdle ==
    /\ wpc = "idle" /\ wcity = <<>> /\ wreqs = <<>> /\ wcurrent = NoBody
    /\ wforecast = NoBody /\ wret = NotCalled /\ prevFallback = None

CatalogIdle == catalog = NoCatalog /\ prevCatalog = NoCatalog

\* load_dotenv() has run: each variable is unset, empty or set
Init ==
    /\ env \in [GOOGLE_API_KEY : EnvValues, OPENWEATHER_API_KEY : EnvValues]
    /\ AppIdle /\ WeatherIdle /\ CatalogIdle

(***************************************************************************)
(* get_current_weather, statement by statement.                            *)
(***************************************************************************)
IsFallback(r) == r.kind \in {"nokey", "error"}

\* the call returns (or raises): the result replaces the previous one
WeatherEnds(r) ==
    /\ wret' = r
    /\ wpc' = "idle"

\* api_key = os.getenv(...); if not api_key: return ...     (lines 21-27)
WeatherCall(c) ==
    /\ wpc = "idle"
    /\ wcity' = c
    /\ wreqs' = <<>>
    /\ wcurrent' = NoBody
    /\ wforecast' = NoBody
    /\ prevFallback' = IF IsFallback(wret)
                       THEN Some([city |-> wcity, ret |-> wret])
                       ELSE prevFallback
    /\ IF Falsy(env.OPENWEATHER_API_KEY)
       THEN WeatherEnds(Returned("nokey", NoKeyMessage, None))
       ELSE wret' = NotCalled /\ wpc' = "current"
    /\ UNCHANGED << env, appVars, catalogVars >>

\* faulty variant: the status of the first response is not looked at
WeatherCurrentUnchecked(resp) ==
    /\ wpc = "current"
    /\ wreqs' = Append(wreqs, [name |-> "weather", ok |-> StatusOk(resp)])
    /\ IF resp.failure # None \/ ~resp.body.isJson
       THEN WeatherEnds(OnException(ReadResponse(resp).exc[1])) /\ UNCHANGED wcurrent
       ELSE wcurrent' = resp.body /\ wpc' = "forecast" /\ UNCHANGED wret
    /\ UNCHANGED << env, appVars, catalogVars, wcity, wforecast, prevFallback >>

\* current_resp = requests.get(.../weather); raise_for_status(); json()  (31-37)
WeatherCurrent(resp) ==
    /\ wpc = "current"
    /\ wreqs' = Append(wreqs, [name |-> "weather", ok |-> StatusOk(resp)])
    /\ IF ReadResponse(resp).exc # None
       THEN WeatherEnds(OnException(ReadResponse(resp).exc[1])) /\ UNCHANGED wcurrent
       ELSE wcurrent' = ReadResponse(resp).val /\ wpc' = "forecast" /\ UNCHANGED wret
    /\ UNCHANGED << env, appVars, catalogVars, wcity, wforecast, prevFallback >>

\* forecast_resp = requests.get(.../forecast); raise_for_status(); json() (40-51)
WeatherForecast(resp) ==
    /\ wpc = "forecast"
    /\ wreqs' = Append(wreqs, [name |-> "forecast", ok |-> StatusOk(resp)])
    /\ IF ReadResponse(resp).exc # None
       THEN WeatherEnds(OnException(ReadResponse(resp).exc[1])) /\ UNCHANGED wforecast
       ELSE wforecast' = ReadResponse(resp).val /\ wpc' = "summarise" /\ UNCHANGED wret
    /\ UNCHANGED << env, appVars, catalogVars, wcity, wcurrent, prevFallback >>

\* the summary is built and returned, or the except clause answers    (53-88)
WeatherSummarise ==
    /\ wpc = "summarise"
    /\ WeatherEnds(Summarise(wcity, wcurrent, wforecast))
    /\ UNCHANGED << env, appVars, catalogVars, wcity, wreqs, wcurrent, wforecast,
                    prevFallback >>

\* load_dotenv() of a later script run: a variable that is unset may be set
\* from the .env file; one that is set is left alone
LoadDotenv ==
    /\ pc \in {"form", "done"} /\ wpc = "idle"
    /\ \E e \in [GOOGLE_API_KEY : EnvValues, OPENWEATHER_API_KEY : EnvValues] :
          /\ e # env
          /\ env.GOOGLE_API_KEY # Unset => e.GOOGLE_API_KEY = env.GOOGLE_API_KEY
          /\ env.OPENWEATHER_API_KEY # Unset
                => e.OPENWEATHER_API_KEY = env.OPENWEATHER_API_KEY
          /\ env' = e
    /\ UNCHANGED << appVars, weatherVars, catalogVars >>

NextWeather ==
    \/ \E c \in Cities : WeatherCall(c)
    \/ \E resp \in Responses(CurrentBodies) : WeatherCurrent(resp)
    \/ \E resp \in Responses(ForecastBodies) : WeatherForecast(resp)
    \/ WeatherSummarise
    \/ LoadDotenv

SpecWeather == Init /\ [][NextWeather]_vars

(***************************************************************************)
(* The catalog tools, called with any destination.                         *)
(***************************************************************************)
FlightsCall(c) ==
    /\ prevCatalog' = catalog
    /\ catalog' = [tool |-> "flights", city |-> c, result |-> get_dummy_flight_options(c)]
    /\ UNCHANGED << env, appVars, weatherVars >>

HotelsCall(c) ==
    /\ prevCatalog' = catalog
    /\ catalog' = [tool |-> "hotels", city |-> c, result |-> get_dummy_hotel_options(c)]
    /\ UNCHANGED << env, appVars, weatherVars >>

NextCatalog ==
    \/ \E c \in Cities : FlightsCall(c)
    \/ \E c \in Cities : HotelsCall(c)

SpecCatalog == Init /\ [][NextCatalog]_vars

(***************************************************************************)
(* agent.py: create_trip_planner_agent and plan_trip.                      *)
(***************************************************************************)
Days == 1..MaxDays

\* faulty variant: the LLM client is constructed before the key is looked at
create_trip_planner_agent_late_check(google_api_key) ==
    [raised |-> Falsy(google_api_key), built |-> 1]

\* create_trip_planner_agent(): RuntimeError when the key is unset or empty,
\* otherwise the LLM client is constructed and the executor returned
create_trip_planner_agent(google_api_key) ==
    IF Falsy(google_api_key)
    THEN [raised |-> TRUE, built |-> 0]
    ELSE [raised |-> FALSE, built |-> 1]

\* user_request
UserRequest(c, n) ==
    <<"Plan a ", ToString(n), "-day trip to ">> \o c
    \o <<". Use tools to get real-time weather (if available) and example flight and hotel options. Then follow the RESPONSE FORMAT specified in the system message and return only the JSON object.">>

\* faulty variant: .lstrip() in place of .strip()
OutputTextLstrip(a) ==
    LET t == IF a = None THEN <<>> ELSE a[1]
    IN  SubSeq(t, SkipWs(t, 1), Len(t))

\* output_text = result.get("output", "").strip()
OutputText(a) == StripText(IF a = None THEN <<>> ELSE a[1])

\* a str whose characters are those of a text
VText(t) == [kind |-> "str", text |-> t]

\* faulty variant: the structure returned when parsing fails lacks the itinerary
FallbackPlanWithoutItinerary(output_text) ==
    VDict(
      (<<"city_overview">> :> VStr(<<"There was an error parsing the AI's response. Below is the raw text output.">>))
      @@ (<<"weather_summary">> :> VStr(<<>>))
      @@ (<<"suggested_dates">> :> VStr(<<>>))
      @@ (<<"flight_options">> :> VList(<<>>))
      @@ (<<"hotel_options">> :> VList(<<>>))
      @@ (<<"raw_output">> :> VText(output_text)))

\* the structure returned when parsing fails
FallbackPlan(output_text) ==
    VDict(
      (<<"city_overview">> :> VStr(<<"There was an error parsing the AI's response. Below is the raw text output.">>))
      @@ (<<"weather_summary">> :> VStr(<<>>))
      @@ (<<"suggested_dates">> :> VStr(<<>>))
      @@ (<<"flight_options">> :> VList(<<>>))
      @@ (<<"hotel_options">> :> VList(<<>>))
      @@ (<<"itinerary">> :> VList(<<>>))
      @@ (<<"raw_output">> :> VText(output_text)))

\* faulty variant: raw_output is attached to a decoded object too
ParseOutputAlwaysRaw(output_text) ==
    IF json_loads(output_text).ok
    THEN IF json_loads(output_text).val.kind = "dict"
         THEN VDict(Put(json_loads(output_text).val.items, <<"raw_output">>,
                        VText(output_text)))
         ELSE json_loads(output_text).val
    ELSE FallbackPlan(output_text)

\* try: parsed = json.loads(output_text) except json.JSONDecodeError: parsed = {...}
ParseOutput(output_text) ==
    IF json_loads(output_text).ok THEN json_loads(output_text).val
    ELSE FallbackPlan(output_text)

\* the destination plan_trip is given: main passes city.strip()
Destination == IF caller = "app" THEN StripStr(city) ELSE city

(***************************************************************************)
(* app.py: main, one script run.                                           *)
(***************************************************************************)
\* the run ends
Ends(how) == pc' = "done" /\ outcome' = how

\* the form is submitted                                      (lines 78-89)
Submit(c, n) ==
    /\ pc = "form" /\ wpc = "idle"
    /\ caller' = "app" /\ city' = c /\ num_days' = n
    /\ credAtStart' = ~Falsy(env.GOOGLE_API_KEY)
    /\ pc' = "validate"
    /\ UNCHANGED << env, llmBuilt, invocations, outbound, decodes, toolCalls, answer,
                    sent, plan, outcome, weatherVars, catalogVars >>

\* the destination and the key are checked                    (lines 90-97)
MainValidate ==
    /\ pc = "validate"
    /\ IF StripStr(city) = <<>> THEN Ends("error_city")
       ELSE IF Falsy(env.GOOGLE_API_KEY) THEN Ends("returned_early")
       ELSE pc' = "create" /\ UNCHANGED outcome
    /\ UNCHANGED << env, caller, city, num_days, credAtStart, llmBuilt, invocations,
                    outbound, decodes, toolCalls, answer, sent, plan, weatherVars,
                    catalogVars >>

\* agent = create_trip_planner_agent(), RuntimeError shown     (lines 100-104)
MainCreate ==
    /\ pc = "create"
    /\ llmBuilt' = llmBuilt + create_trip_planner_agent(env.GOOGLE_API_KEY).built
    /\ IF create_trip_planner_agent(env.GOOGLE_API_KEY).raised
       THEN Ends("error_config")
       ELSE pc' = "plan_trip" /\ UNCHANGED outcome
    /\ UNCHANGED << env, caller, city, num_days, credAtStart, invocations, outbound,
                    decodes, toolCalls, answer, sent, plan, weatherVars, catalogVars >>

\* Another importer of agent.py calls create_trip_planner_agent() and, with
\* the executor it returns, plan_trip(agent, c, n) for any destination.
DirectCreate(c, n) ==
    /\ pc = "form" /\ wpc = "idle"
    /\ caller' = "import" /\ city' = c /\ num_days' = n
    /\ credAtStart' = ~Falsy(env.GOOGLE_API_KEY)
    /\ llmBuilt' = llmBuilt + create_trip_planner_agent(env.GOOGLE_API_KEY).built
    /\ IF create_trip_planner_agent(env.GOOGLE_API_KEY).raised
       THEN Ends("RuntimeError")
       ELSE pc' = "plan_trip" /\ UNCHANGED outcome
    /\ UNCHANGED << env, invocations, outbound, decodes, toolCalls, answer, sent, plan,
                    weatherVars, catalogVars >>

\* plan_trip: result = agent.invoke({"input": user_request})  (agent.py 103-110)
PlanTripInvoke ==
    /\ pc = "plan_trip"
    /\ invocations' = Append(invocations, UserRequest(Destination, num_days))
    /\ outbound' = TRUE
    /\ pc' = "invoking"
    /\ UNCHANGED << env, caller, city, num_days, credAtStart, llmBuilt, decodes,
                    toolCalls, answer, sent, plan, outcome, weatherVars, catalogVars >>

\* an exception leaves plan_trip: main does not catch it, a direct caller gets it
Propagates == Ends(IF caller = "app" THEN "crashed" ELSE "raised")

\* a city the LLM asks about that is not the destination
OtherCity == <<"R">>

\* what the provider may answer to the forecast request: it is sent only
\* when the first response was read
SecondResponses(r1) ==
    IF ReadResponse(r1).exc = None THEN Responses(ForecastBodies)
    ELSE {CHOOSE r \in Responses(ForecastBodies) : TRUE}

\* inside agent.invoke the LLM calls get_current_weather with a city it chose
AgentCallsWeather(c, r1, r2) ==
    /\ pc = "invoking" /\ toolCalls < MaxToolCalls
    /\ outbound' = (outbound
                     \/ get_current_weather(c, env.OPENWEATHER_API_KEY, r1, r2).reqs # <<>>)
    /\ IF get_current_weather(c, env.OPENWEATHER_API_KEY, r1, r2).ret.kind = "raised"
       THEN Propagates /\ toolCalls' = 0
       ELSE toolCalls' = toolCalls + 1 /\ UNCHANGED << pc, outcome >>
    /\ UNCHANGED << env, caller, city, num_days, credAtStart, llmBuilt, invocations,
                    decodes, answer, sent, plan, weatherVars, catalogVars >>

\* inside agent.invoke the LLM calls get_dummy_flight_options or
\* get_dummy_hotel_options: no outbound call, nothing kept
AgentCallsCatalog ==
    /\ pc = "invoking" /\ toolCalls < MaxToolCalls
    /\ toolCalls' = toolCalls + 1
    /\ UNCHANGED << env, pc, caller, city, num_days, credAtStart, llmBuilt,
                    invocations, outbound, decodes, answer, sent, plan, outcome,
                    weatherVars, catalogVars >>

\* agent.invoke returns a final answer
AgentReturns(doc, spaced, how, left, right) ==
    /\ pc = "invoking"
    /\ toolCalls' = 0
    /\ answer' = Some(AnswerText(doc, spaced, how, left, right))
    /\ sent' = Some([wellFormed |-> how = "none", value |-> Meaning(doc)])
    /\ pc' = "decode"
    /\ UNCHANGED << env, caller, city, num_days, credAtStart, llmBuilt, invocations,
                    outbound, decodes, plan, outcome, weatherVars,
                    catalogVars >>

\* agent.invoke returns a result without an "output" entry
AgentReturnsNoOutput ==
    /\ pc = "invoking"
    /\ toolCalls' = 0
    /\ answer' = None
    /\ sent' = Some([wellFormed |-> FALSE, value |-> NoPlan])
    /\ pc' = "decode"
    /\ UNCHANGED << env, caller, city, num_days, credAtStart, llmBuilt, invocations,
                    outbound, decodes, plan, outcome, weatherVars,
                    catalogVars >>

\* agent.invoke raises: the LLM service is unreachable or refuses the call
AgentRaises ==
    /\ pc = "invoking"
    /\ toolCalls' = 0
    /\ Propagates
    /\ UNCHANGED << env, caller, city, num_days, credAtStart, llmBuilt, invocations,
                    outbound, decodes, answer, sent, plan, weatherVars,
                    catalogVars >>

\* faulty variant: plan_trip asks the agent again when the answer does not decode
PlanTripDecodeRetrying ==
    /\ pc = "decode"
    /\ decodes' = decodes + 1
    /\ IF ~json_loads(OutputText(answer)).ok
       THEN pc' = "plan_trip" /\ UNCHANGED << plan, outcome >>
       ELSE /\ plan' = ParseOutput(OutputText(answer))
            /\ IF caller = "app" THEN pc' = "render" /\ UNCHANGED outcome
               ELSE Ends("returned")
    /\ UNCHANGED << env, caller, city, num_days, credAtStart, llmBuilt, invocations,
                    outbound, toolCalls, answer, sent, weatherVars, catalogVars >>

\* plan_trip: strip, json.loads or the fallback, return      (agent.py 111-129)
PlanTripDecode ==
    /\ pc = "decode"
    /\ decodes' = decodes + 1
    /\ plan' = ParseOutput(OutputText(answer))
    /\ IF caller = "app" THEN pc' = "render" /\ UNCHANGED outcome
       ELSE Ends("returned")
    /\ UNCHANGED << env, caller, city, num_days, credAtStart, llmBuilt, invocations,
                    outbound, toolCalls, answer, sent, weatherVars, catalogVars >>

\* bool(v) of a decoded value
Truthy(v) ==
    CASE v.kind = "dict" -> DOMAIN v.items # {}
      [] v.kind = "list" -> v.elems # <<>>
      [] v.kind = "str" -> v.s # <<>>
      [] v.kind = "num" -> v.n # 0
      [] OTHER -> FALSE

\* main's rendering raises: plan.get on what is no dict, or day.get on an
\* itinerary entry that is no dict                            (lines 116-155)
RenderRaises(p) ==
    \/ p.kind # "dict"
    \/ /\ p.kind = "dict"
       /\ <<"itinerary">> \in DOMAIN p.items
       /\ Truthy(p.items[<<"itinerary">>])
       /\ \/ p.items[<<"itinerary">>].kind # "list"
          \/ /\ p.items[<<"itinerary">>].kind = "list"
             /\ \E i \in DOMAIN p.items[<<"itinerary">>].elems :
                   p.items[<<"itinerary">>].elems[i].kind # "dict"

\* the plan is rendered                                       (lines 108-162)
MainRender ==
    /\ pc = "render"
    /\ Ends(IF RenderRaises(plan) THEN "crashed" ELSE "rendered")
    /\ UNCHANGED << env, caller, city, num_days, credAtStart, llmBuilt, invocations,
                    outbound, decodes, toolCalls, answer, sent, plan, weatherVars,
                    catalogVars >>

\* the script runs again, up to the form: nothing of the last run is kept
Rerun ==
    /\ pc = "done"
    /\ pc' = "form" /\ caller' = "none" /\ city' = <<>> /\ num_days' = 1
    /\ credAtStart' = FALSE /\ llmBuilt' = 0 /\ invocations' = <<>> /\ outbound' = FALSE
    /\ decodes' = 0 /\ toolCalls' = 0 /\ answer' = None /\ sent' = None
    /\ plan' = NoPlan /\ outcome' = "none"
    /\ UNCHANGED << env, weatherVars, catalogVars >>

Next ==
    \/ \E c \in Cities, n \in Days : Submit(c, n)
    \/ MainValidate
    \/ MainCreate
    \/ \E c \in Cities, n \in Days : DirectCreate(c, n)
    \/ PlanTripInvoke
    \/ \E c \in {Destination, OtherCity}, r1 \in Responses(CurrentBodies) :
          \E r2 \in SecondResponses(r1) : AgentCallsWeather(c, r1, r2)
    \/ AgentCallsCatalog
    \/ \E doc \in Documents(Destination, num_days), spaced \in BOOLEAN :
          AgentReturns(doc, spaced, "none", 0, 0)
    \/ \E doc \in {BarePlan, DStr(<<"Sorry.">>)}, how \in Damages,
          left \in 0..MaxPad, right \in 0..MaxPad :
          AgentReturns(doc, FALSE, how, left, right)
    \/ AgentReturnsNoOutput
    \/ AgentRaises
    \/ PlanTripDecode
    \/ MainRender
    \/ Rerun
    \/ LoadDotenv

Spec == Init /\ [][Next]_vars

(***************************************************************************)
(* Properties.                                                             *)
(***************************************************************************)
\* plan_trip returned an object to its caller
PlanReturned == plan # NoPlan

\* the object is a dict that has the six keys of the Trip Plan
HasSchemaKeys(p) == p.kind = "dict" /\ SchemaKeys \subseteq DOMAIN p.items

\* the agent's final answer spelled a JSON value, and which
AnswerWellFormed == sent # None /\ sent[1].wellFormed
AnswerMalformed == sent # None /\ ~sent[1].wellFormed

\* result.get("output", ""): the final answer text plan_trip was given
GivenText == IF answer = None THEN <<>> ELSE answer[1]

\* json.loads accepts exactly the final answers that spell a JSON value
ParserAgrees ==
    PlanReturned => (json_loads(OutputText(answer)).ok <=> AnswerWellFormed)

\* C1 (as stated): whatever the final answer, decodable or not, the object
\* plan_trip returns has the six top-level keys.
C1_AlwaysSixKeys == PlanReturned => HasSchemaKeys(plan)

\* C1 (amended): the returned object has the six keys whenever decoding
\* failed; when decoding succeeded it has them exactly when the decoded
\* final answer is an object that has them.
C1_SixKeysUnlessDecodedWithout ==
    PlanReturned =>
        IF AnswerWellFormed
        THEN HasSchemaKeys(plan) <=> HasSchemaKeys(sent[1].value)
        ELSE HasSchemaKeys(plan)

\* a final answer that did not decode was answered with the six keys
C1_Witness == PlanReturned /\ AnswerMalformed /\ HasSchemaKeys(plan) /\ answer # None

\* the fallback's values: a placeholder overview, the other fields empty
HasPlaceholders(p) ==
    /\ p.kind = "dict"
    /\ DOMAIN p.items = SchemaKeys \cup {<<"raw_output">>}
    /\ p.items[<<"city_overview">>].kind = "str"
    /\ p.items[<<"city_overview">>].s # <<>>
    /\ p.items[<<"weather_summary">>] = VStr(<<>>)
    /\ p.items[<<"suggested_dates">>] = VStr(<<>>)
    /\ p.items[<<"flight_options">>] = VList(<<>>)
    /\ p.items[<<"hotel_options">>] = VList(<<>>)
    /\ p.items[<<"itinerary">>] = VList(<<>>)

\* raw is text with the whitespace at its two ends removed
IsStripped(raw, text) ==
    /\ \E l, r \in 0..Len(text) : text = Ws(l) \o raw \o Ws(r)
    /\ raw # <<>> => ~IsWsLexeme(raw[1]) /\ ~IsWsLexeme(raw[Len(raw)])

\* C2 (as stated): a final answer that is no JSON gets, without an
\* exception, the placeholder object whose raw_output is exactly the final
\* answer text.
C2_RawOutputIsGivenText ==
    (decodes > 0 /\ AnswerMalformed) =>
        /\ PlanReturned
        /\ HasPlaceholders(plan)
        /\ plan.items[<<"raw_output">>] = VText(GivenText)

\* C2 (amended): ... whose raw_output is the final answer text with its
\* leading and trailing whitespace removed.
C2_RawOutputIsStrippedText ==
    (decodes > 0 /\ AnswerMalformed) =>
        /\ PlanReturned
        /\ HasPlaceholders(plan)
        /\ plan.items[<<"raw_output">>].kind = "str"
        /\ IsStripped(plan.items[<<"raw_output">>].text, GivenText)

\* a malformed answer with whitespace on both sides was answered
C2_Witness ==
    /\ PlanReturned /\ AnswerMalformed /\ answer # None
    /\ Len(GivenText) > 2
    /\ IsWsLexeme(GivenText[1]) /\ IsWsLexeme(GivenText[Len(GivenText)])
    /\ HasPlaceholders(plan)

\* the object has the six keys of the Trip Plan and no other
MatchesSchema(p) == p.kind = "dict" /\ DOMAIN p.items = SchemaKeys

\* C3: a final answer that is well-formed JSON matching the schema is
\* returned as decoded: the same keys with the same values, and no
\* raw_output.
C3_DecodedUnchanged ==
    (PlanReturned /\ AnswerWellFormed /\ MatchesSchema(sent[1].value)) =>
        /\ plan = sent[1].value
        /\ <<"raw_output">> \notin DOMAIN plan.items

\* a full plan, written with whitespace, was decoded and returned
C3_Witness ==
    /\ PlanReturned /\ AnswerWellFormed /\ MatchesSchema(sent[1].value)
    /\ \E i \in DOMAIN GivenText : IsWsLexeme(GivenText[i])
    /\ Len(plan.items[<<"flight_options">>].elems) = 3
    /\ Len(plan.items[<<"itinerary">>].elems) = num_days

C5_PlanTripAlwaysReturns ==
    (credAtStart /\ pc = "done" /\ invocations # <<>>) => PlanReturned

\* C9: a call of plan_trip invokes the agent once, before any decoding, and
\* not again when the answer fails to decode.
C9_OneInvocation ==
    /\ Len(invocations) <= 1
    /\ pc \in {"invoking", "decode", "render"} => Len(invocations) = 1
    /\ decodes > 0 => Len(invocations) = 1 /\ decodes = 1
    /\ PlanReturned => Len(invocations) = 1 /\ decodes = 1

\* an answer failed to decode and the request ended after one invocation
C9_Witness ==
    /\ pc = "done" /\ PlanReturned /\ AnswerMalformed
    /\ Len(invocations) = 1 /\ decodes = 1

\* a str of length > 0
NonEmptyStr(s) == \E i \in DOMAIN s : s[i] # ""

\* the key get_current_weather finds is set and not empty
WeatherKeySet == ~Falsy(env.OPENWEATHER_API_KEY)

\* C6: get_current_weather never raises and every call returns a non-empty
\* string, whatever the provider does.
C6_WeatherNeverRaises ==
    /\ wret.kind # "raised"
    /\ wret.kind # "none" => wpc = "idle" /\ NonEmptyStr(wret.text)
    /\ wpc \in {"idle", "current", "forecast", "summarise"}

\* a forecast entry without a numeric temperature ended in a returned string
C6_Witness ==
    /\ wret.kind = "error" /\ wret.exc[1].type = "TypeError"
    /\ Len(wreqs) = 2 /\ wreqs[2].ok
    /\ NonEmptyStr(wret.text)

\* C7 (as stated): the fallback is one fixed string: any two fallbacks
\* returned, for whatever city and cause, are the same text.
C7_FallbackIsOneString ==
    (IsFallback(wret) /\ prevFallback # None) => wret.text = prevFallback[1].ret.text

\* C7 (amended): the fallback for a missing key is one fixed string, the
\* same for every city; the fallback for an error is another text, a fixed
\* sentence around the text of the error: equal for errors of equal text,
\* different for errors of different text.
C7_FallbackFixedPerCause ==
    (IsFallback(wret) /\ prevFallback # None) =>
        LET p == prevFallback[1].ret
        IN  /\ (wret.kind = "nokey" /\ p.kind = "nokey") => wret.text = p.text
            /\ wret.kind # p.kind => wret.text # p.text
            /\ (wret.kind = "error" /\ p.kind = "error") =>
                   (wret.text = p.text <=> wret.exc[1].msg = p.exc[1].msg)

\* two calls for different cities failed for different reasons
C7_Witness ==
    /\ IsFallback(wret) /\ prevFallback # None
    /\ wret.kind = "error" /\ prevFallback[1].ret.kind = "error"
    /\ wret.exc[1].msg # prevFallback[1].ret.exc[1].msg
    /\ wcity # prevFallback[1].city

\* C10: no request without the key; with it, the current-weather request
\* first and the forecast request only after the first returned a success
\* status; at most two requests; a real summary only after two successes.
C10_RequestOrder ==
    /\ Len(wreqs) <= 2
    /\ wret.kind = "nokey" => wreqs = <<>>
    /\ wpc # "idle" => WeatherKeySet
    /\ wret.kind \in {"error", "real"} => Len(wreqs) >= 1
    /\ wpc \in {"forecast", "summarise"} => Len(wreqs) >= 1
    /\ Len(wreqs) >= 1 => wreqs[1].name = "weather"
    /\ Len(wreqs) = 2 => wreqs[2].name = "forecast" /\ wreqs[1].ok
    /\ wret.kind = "real" => Len(wreqs) = 2 /\ wreqs[1].ok /\ wreqs[2].ok

\* a real summary was returned after both requests
C10_Witness ==
    /\ wret.kind = "real" /\ Len(wreqs) = 2 /\ wcity # <<>>
    /\ Contains(wret.text, wcity)

FlightKeys == {"airline", "from", "to", "stops", "duration_hours", "price_usd", "notes"}
HotelKeys == {"name", "stars", "price_per_night_usd", "location", "notes"}

\* C8: each catalog tool returns three records, all naming the city, with
\* the keys and ranges of the schema, and the same list for the same city.
C8_CatalogFixed ==
    /\ catalog.tool = "flights" =>
           /\ Len(catalog.result) = 3
           /\ \A i \in DOMAIN catalog.result :
                 /\ DOMAIN catalog.result[i] = FlightKeys
                 /\ catalog.result[i].to = catalog.city
                 /\ catalog.result[i].stops >= 0
    /\ catalog.tool = "hotels" =>
           /\ Len(catalog.result) = 3
           /\ \A i \in DOMAIN catalog.result :
                 /\ DOMAIN catalog.result[i] = HotelKeys
                 /\ Contains(catalog.result[i].name, catalog.city)
                 /\ catalog.result[i].stars \in 1..5
    /\ (catalog.tool = prevCatalog.tool /\ catalog.city = prevCatalog.city) =>
           catalog.result = prevCatalog.result

\* the hotel tool was called twice for the same city
C8_Witness ==
    /\ catalog.tool = "hotels" /\ prevCatalog.tool = "hotels"
    /\ catalog.city = prevCatalog.city /\ catalog.city # <<>>
    /\ Len(catalog.result) = 3

====
